---- MODULE Spec2Model ----
(***************************************************************************)
(* Model of exam_optimizer.py: the SectionPerformance record with its      *)
(* constructor-time validation, and the allocate_time function.            *)
(*                                                                         *)
(* Numbers are exact rationals <<numerator, denominator>> in lowest terms  *)
(* with a positive denominator, so "/" is Python's true division without   *)
(* the rounding of binary floating point.                                  *)
(***************************************************************************)
EXTENDS Integers, Sequences, FiniteSets, TLC

\* Longest list of sections handed to allocate_time.
MaxLen == 2
\* Most SectionPerformance instances the caller keeps alive at once.
MaxInstances == 1

---------------------------------------------------------------------------
(* Rational arithmetic *)

Abs(x) == IF x < 0 THEN -x ELSE x

RECURSIVE GCD(_, _)
GCD(a, b) == IF b = 0 THEN a ELSE GCD(b, a % b)

Rat(n, d) ==
    LET s == IF d < 0 THEN -1 ELSE 1
        g == GCD(Abs(n), Abs(d))
    IN  <<(s * n) \div g, (s * d) \div g>>

Zero == Rat(0, 1)
One == Rat(1, 1)

Add(x, y) == Rat(x[1] * y[2] + y[1] * x[2], x[2] * y[2])
Sub(x, y) == Rat(x[1] * y[2] - y[1] * x[2], x[2] * y[2])
Mul(x, y) == Rat(x[1] * y[1], x[2] * y[2])
Lt(x, y) == x[1] * y[2] < y[1] * x[2]
Le(x, y) == x[1] * y[2] <= y[1] * x[2]

\* Python's "/": raises ZeroDivisionError on a zero divisor.
TrueDiv(x, y) ==
    IF y[1] = 0
    THEN [exc |-> "ZeroDivisionError", val |-> Zero]
    ELSE [exc |-> "", val |-> Rat(x[1] * y[2], x[2] * y[1])]

\* An optional value: <<>> is "not set", <<v>> is "set to v".
None == <<>>
Some(v) == <<v>>

---------------------------------------------------------------------------
(* Inputs *)

Names == {"Math", "Reading"}
\* Arguments a caller may hand to the constructor, valid and invalid.
ArgWeights == {Rat(-1, 1), Rat(0, 1), Rat(1, 1), Rat(2, 1)}
ArgProficiencies == {Rat(-1, 2), Rat(0, 1), Rat(1, 2), Rat(1, 1), Rat(3, 2)}
ArgTimes == {Rat(-1, 1), Rat(0, 1), Rat(1, 1), Rat(3, 1)}

Fields(name, weight, proficiency) ==
    [name |-> name, weight |-> weight, proficiency |-> proficiency]

Candidates ==
    {Fields(n, w, p) : n \in Names, w \in ArgWeights, p \in ArgProficiencies}

---------------------------------------------------------------------------
(* SectionPerformance *)

\* __post_init__ without the weight check.
post_init_noweight(s) ==
    IF ~(Le(Zero, s.proficiency) /\ Le(s.proficiency, One))
    THEN "proficiency must be between 0 and 1"
    ELSE ""

\* __post_init__ without the upper limit on the proficiency.
post_init_noupper(s) ==
    IF ~Le(Zero, s.proficiency)
    THEN "proficiency must be between 0 and 1"
    ELSE IF Lt(s.weight, Zero)
         THEN "weight must be non-negative"
         ELSE ""

\* __post_init__: the message of the ValueError raised, "" when none is.
post_init(s) ==
    IF ~(Le(Zero, s.proficiency) /\ Le(s.proficiency, One))
    THEN "proficiency must be between 0 and 1"
    ELSE IF Lt(s.weight, Zero)
         THEN "weight must be non-negative"
         ELSE ""

\* The instances the constructor yields.
Instances == {s \in Candidates : post_init(s) = ""}

RECURSIVE SeqsUpTo(_, _)
SeqsUpTo(S, n) ==
    IF n = 0 THEN {<<>>}
    ELSE LET shorter == SeqsUpTo(S, n - 1)
         IN  shorter \cup {Append(q, s) : q \in shorter, s \in S}

---------------------------------------------------------------------------
(* allocate_time *)

\* The difficulty score with the proficiency not inverted.
difficulty_direct(s) == Mul(s.weight, s.proficiency)

\* s.weight * (1 - s.proficiency)
difficulty(s) == Mul(s.weight, Sub(One, s.proficiency))

Scores(secs) == [i \in 1..Len(secs) |-> difficulty(secs[i])]

RECURSIVE SumSeq(_)
SumSeq(q) == IF q = <<>> THEN Zero ELSE Add(Head(q), SumSeq(Tail(q)))

\* A sum that misses the last score.
Total_droplast(scores) ==
    IF scores = <<>> THEN Zero ELSE SumSeq(SubSeq(scores, 1, Len(scores) - 1))

\* sum(difficulty_scores)
Total(scores) == SumSeq(scores)

\* The even split without the special case for an empty list.
EvenTime_unguarded(secs, T) ==
    LET d == TrueDiv(T, Rat(Len(secs), 1))
    IN  [exc |-> d.exc, val |-> d.val, divided |-> TRUE]

\* The even split over one section too many.
EvenTime_plusone(secs, T) ==
    IF secs # <<>>
    THEN LET d == TrueDiv(T, Rat(Len(secs) + 1, 1))
         IN  [exc |-> d.exc, val |-> d.val, divided |-> TRUE]
    ELSE [exc |-> "", val |-> Zero, divided |-> FALSE]

\* total_time / len(sections) if sections else 0
EvenTime(secs, T) ==
    IF secs # <<>>
    THEN LET d == TrueDiv(T, Rat(Len(secs), 1))
         IN  [exc |-> d.exc, val |-> d.val, divided |-> TRUE]
    ELSE [exc |-> "", val |-> Zero, divided |-> FALSE]

\* Pairs keyed by name: a later section with a name already seen is dropped.
Pairs_byname(secs, times) ==
    LET keep == {i \in 1..Len(secs) : \A j \in 1..(i - 1) : secs[j].name # secs[i].name}
        RECURSIVE Build(_)
        Build(i) == IF i = 0 THEN <<>>
                    ELSE IF i \in keep
                         THEN Append(Build(i - 1), <<secs[i].name, times[i]>>)
                         ELSE Build(i - 1)
    IN  Build(Len(secs))

\* [(s.name, time) for s, time in zip(sections, times)]
Pairs(secs, times) == [i \in 1..Len(secs) |-> <<secs[i].name, times[i]>>]

\* The shares without the division by the total.
Shares_unscaled(T, scores, total) ==
    [i \in 1..Len(scores) |-> Mul(T, scores[i])]

\* total_time * score / total_difficulty, for each score
Shares(T, scores, total) ==
    [i \in 1..Len(scores) |-> TrueDiv(Mul(T, scores[i]), total).val]

\* The check that lets zero through.
NotPositive_strict(T) == Lt(T, Zero)

\* total_time <= 0
NotPositive(T) == Le(T, Zero)

\* The function as a whole: what a call returns or raises.
allocate_time(secs, T) ==
    IF NotPositive(T)
    THEN [exc |-> "total_time must be positive", ret |-> <<>>, even |-> FALSE]
    ELSE LET scores == Scores(secs)
             total == Total(scores)
         IN  IF total = Zero
             THEN LET e == EvenTime(secs, T)
                  IN  [exc |-> e.exc,
                       ret |-> IF e.exc = "" THEN Pairs(secs, [i \in 1..Len(secs) |-> e.val])
                                             ELSE <<>>,
                       even |-> TRUE]
             ELSE [exc |-> "", ret |-> Pairs(secs, Shares(T, scores, total)), even |-> FALSE]

---------------------------------------------------------------------------
(* State *)

VARIABLES
    sections,           \* the caller's list of SectionPerformance instances
    ctor,               \* the last constructor call: its arguments and outcome
    pc,                 \* position of the allocate_time call
    total_time,         \* argument of the call
    difficulty_scores,  \* local, None until computed
    total_difficulty,   \* local, None until computed
    even_time,          \* local, None unless the even-split branch ran
    divided,            \* whether total_time / len(sections) was evaluated
    ret,                \* the list returned
    exc                 \* message of the exception raised, "" when none

frame == <<pc, total_time, difficulty_scores, total_difficulty, even_time, divided, ret, exc>>
vars == <<sections, ctor, pc, total_time, difficulty_scores, total_difficulty,
          even_time, divided, ret, exc>>

NoCall ==
    /\ pc = "idle"
    /\ total_time = Zero
    /\ difficulty_scores = None
    /\ total_difficulty = None
    /\ even_time = None
    /\ divided = FALSE
    /\ ret = <<>>
    /\ exc = ""

NoCtor == [args |-> None, exc |-> "", obj |-> None]

\* The caller holds a list built from constructed instances.
Init ==
    /\ sections \in SeqsUpTo(Instances, MaxLen)
    /\ ctor = NoCtor
    /\ NoCall

\* allocate_time(sections, T) is entered.
Call(T) ==
    /\ pc \in {"idle", "returned", "raised"}
    /\ pc' = "line40"
    /\ total_time' = T
    /\ difficulty_scores' = None
    /\ total_difficulty' = None
    /\ even_time' = None
    /\ divided' = FALSE
    /\ ret' = <<>>
    /\ exc' = ""
    /\ UNCHANGED <<sections, ctor>>

\* if total_time <= 0: raise ValueError
CheckTotalTime ==
    /\ pc = "line40"
    /\ IF NotPositive(total_time)
       THEN /\ exc' = "total_time must be positive"
            /\ pc' = "raised"
       ELSE /\ exc' = exc
            /\ pc' = "line43"
    /\ UNCHANGED <<sections, ctor, total_time, difficulty_scores, total_difficulty,
                   even_time, divided, ret>>

\* difficulty_scores = [...]; total_difficulty = sum(difficulty_scores)
ComputeScores ==
    /\ pc = "line43"
    /\ difficulty_scores' = Some(Scores(sections))
    /\ total_difficulty' = Some(Total(Scores(sections)))
    /\ pc' = "line46"
    /\ UNCHANGED <<sections, ctor, total_time, even_time, divided, ret, exc>>

\* if total_difficulty == 0: split the time evenly
EvenSplit ==
    /\ pc = "line46"
    /\ total_difficulty[1] = Zero
    /\ LET e == EvenTime(sections, total_time)
       IN  /\ divided' = e.divided
           /\ IF e.exc # ""
              THEN /\ exc' = e.exc
                   /\ pc' = "raised"
                   /\ UNCHANGED <<even_time, ret>>
              ELSE /\ even_time' = Some(e.val)
                   /\ ret' = Pairs(sections, [i \in 1..Len(sections) |-> e.val])
                   /\ pc' = "returned"
                   /\ exc' = exc
    /\ UNCHANGED <<sections, ctor, total_time, difficulty_scores, total_difficulty>>

\* otherwise: split the time in proportion to the scores
Proportional ==
    /\ pc = "line46"
    /\ total_difficulty[1] # Zero
    /\ ret' = Pairs(sections, Shares(total_time, difficulty_scores[1], total_difficulty[1]))
    /\ pc' = "returned"
    /\ UNCHANGED <<sections, ctor, total_time, difficulty_scores, total_difficulty,
                   even_time, divided, exc>>

Next ==
    \/ \E T \in ArgTimes : Call(T)
    \/ CheckTotalTime
    \/ ComputeScores
    \/ EvenSplit
    \/ Proportional

Spec == Init /\ [][Next]_vars

---------------------------------------------------------------------------
(* Building and handling the instances *)

\* The caller starts with no instance.
InitObj ==
    /\ sections = <<>>
    /\ ctor = NoCtor
    /\ NoCall

\* SectionPerformance(name, weight, proficiency): the generated __init__ sets
\* the fields and runs __post_init__; the caller keeps the instance in its list.
Construct(name, weight, proficiency) ==
    LET s == Fields(name, weight, proficiency)
        m == post_init(s)
    IN  /\ m = "" => Len(sections) < MaxInstances
        /\ ctor' = [args |-> Some(<<name, weight, proficiency>>),
                    exc |-> m,
                    obj |-> IF m = "" THEN Some(s) ELSE None]
        /\ sections' = IF m = "" THEN Append(sections, s) ELSE sections
        /\ UNCHANGED frame

FieldValues(f) ==
    CASE f = "name" -> Names
      [] f = "weight" -> ArgWeights
      [] f = "proficiency" -> ArgProficiencies

\* instance.field = v: the dataclass is not frozen, so the assignment stores
\* the value, and __post_init__ is not run again.
SetAttr(i, f, v) ==
    /\ i \in 1..Len(sections)
    /\ sections' = [sections EXCEPT ![i] = [@ EXCEPT ![f] = v]]
    /\ UNCHANGED <<ctor, frame>>

NextObj ==
    \/ \E n \in Names, w \in ArgWeights, p \in ArgProficiencies : Construct(n, w, p)
    \/ \E i \in 1..MaxInstances, f \in {"name", "weight", "proficiency"} :
          \E v \in FieldValues(f) : SetAttr(i, f, v)

SpecObj == InitObj /\ [][NextObj]_vars

---------------------------------------------------------------------------
(* Properties *)

\* The difficulty score as the specification words it.
SpecScore(s) == Mul(s.weight, Sub(One, s.proficiency))
SpecTotal(secs) == SumSeq([i \in 1..Len(secs) |-> SpecScore(secs[i])])
Allocated == [i \in 1..Len(ret) |-> ret[i][2]]
Degenerate(secs) ==
    \A i \in 1..Len(secs) : secs[i].weight = Zero \/ secs[i].proficiency = One
InUnit(x) == Le(Zero, x) /\ Le(x, One)

\* C1: for a non-empty list of valid sections and total_time > 0, the
\* allocated times returned add up to total_time, in the even-split branch and
\* in the proportional branch.
C1_Conservation ==
    (pc = "returned" /\ sections # <<>>) => SumSeq(Allocated) = total_time

C1_Witness ==
    /\ pc = "returned"
    /\ Len(sections) = 2
    /\ even_time = None
    /\ ret[1][2] # Zero
    /\ ret[2][2] # Zero
    /\ ret[1][2] # ret[2][2]

\* Section i replaced by an instance of the same name with a larger weight and
\* the same proficiency, or with the same weight and a smaller proficiency.
Raised(i, s2) ==
    /\ s2.name = sections[i].name
    /\ \/ s2.proficiency = sections[i].proficiency /\ Lt(sections[i].weight, s2.weight)
       \/ s2.weight = sections[i].weight /\ Lt(s2.proficiency, sections[i].proficiency)

OthersScore(i) ==
    \E j \in 1..Len(sections) : j # i /\ SpecScore(sections[j]) # Zero

\* C2 as stated: in the proportional branch, raising one section's weight or
\* lowering its proficiency, the other sections held fixed, strictly increases
\* the time allocated to that section.
C2_StrictlyMonotone ==
    (pc = "returned" /\ even_time = None) =>
        \A i \in 1..Len(sections) : \A s2 \in Instances :
            Raised(i, s2) =>
                LET out == allocate_time([sections EXCEPT ![i] = s2], total_time)
                IN  ~out.even => Lt(ret[i][2], out.ret[i][2])

\* C2 as amended: in the proportional branch, raising one section's weight or
\* lowering its proficiency, the other sections held fixed, stays in the
\* proportional branch and never decreases the time allocated to that section;
\* the time strictly increases exactly when the change raises the section's
\* difficulty score and some other section has a non-zero difficulty score.
C2_Monotone ==
    (pc = "returned" /\ even_time = None) =>
        \A i \in 1..Len(sections) : \A s2 \in Instances :
            Raised(i, s2) =>
                LET out == allocate_time([sections EXCEPT ![i] = s2], total_time)
                IN  /\ ~out.even
                    /\ out.exc = ""
                    /\ Le(ret[i][2], out.ret[i][2])
                    /\ Lt(ret[i][2], out.ret[i][2]) <=>
                           (Lt(SpecScore(sections[i]), SpecScore(s2)) /\ OthersScore(i))

C2_Witness ==
    /\ pc = "returned"
    /\ even_time = None
    /\ Len(sections) = 2
    /\ \E i \in 1..2 : \E s2 \in Instances :
           /\ Raised(i, s2)
           /\ Lt(ret[i][2], allocate_time([sections EXCEPT ![i] = s2], total_time).ret[i][2])

\* C3: every existing SectionPerformance instance satisfies
\* 0 <= proficiency <= 1 and weight >= 0 in every reachable state: nothing that
\* can be done to an instance after its construction makes it invalid.
C3_InstancesStayValid ==
    \A i \in 1..Len(sections) :
        InUnit(sections[i].proficiency) /\ Le(Zero, sections[i].weight)

\* C4: constructing with a proficiency outside [0, 1] or a weight < 0 raises an
\* error whose message names an offending field and yields no instance;
\* constructing with a proficiency in [0, 1] and a weight >= 0 raises nothing
\* and yields an instance holding exactly the given name, weight and proficiency.
C4_Construction ==
    ctor.args # None =>
        LET n == ctor.args[1][1]
            w == ctor.args[1][2]
            p == ctor.args[1][3]
        IN  IF InUnit(p) /\ Le(Zero, w)
            THEN /\ ctor.exc = ""
                 /\ ctor.obj = Some([name |-> n, weight |-> w, proficiency |-> p])
            ELSE /\ ctor.obj = None
                 /\ \/ ctor.exc = "proficiency must be between 0 and 1" /\ ~InUnit(p)
                    \/ ctor.exc = "weight must be non-negative" /\ Lt(w, Zero)

C4_Witness ==
    /\ ctor.args # None
    /\ ctor.exc = "weight must be non-negative"
    /\ ctor.obj = None
    /\ sections # <<>>

\* C5: a call with total_time <= 0 raises "total_time must be positive" and
\* returns nothing, whatever the sections, the empty list included, and it does
\* so before any difficulty score is computed.
C5_RejectsNonPositive ==
    (pc \notin {"idle", "line40"} /\ Le(total_time, Zero)) =>
        /\ pc = "raised"
        /\ exc = "total_time must be positive"
        /\ ret = <<>>
        /\ difficulty_scores = None
        /\ total_difficulty = None

C5_Witness ==
    /\ pc = "raised"
    /\ sections = <<>>
    /\ total_time = Zero
    /\ exc = "total_time must be positive"

\* C6: when the total difficulty is not 0, section i is given exactly
\* total_time * difficulty_i / total_difficulty, with
\* difficulty_i = weight_i * (1 - proficiency_i) and total_difficulty their sum.
C6_Proportional ==
    (pc = "returned" /\ SpecTotal(sections) # Zero) =>
        /\ Len(ret) = Len(sections)
        /\ \A i \in 1..Len(sections) :
              /\ Mul(ret[i][2], SpecTotal(sections))
                     = Mul(total_time, SpecScore(sections[i]))
              /\ ret[i][2] = TrueDiv(Mul(total_time, SpecScore(sections[i])),
                                     SpecTotal(sections)).val

C6_Witness ==
    /\ pc = "returned"
    /\ SpecTotal(sections) # Zero
    /\ Len(sections) = 2
    /\ ret[1][2][2] # 1
    /\ ret[2][2][2] # 1

\* C7: for a non-empty list whose sections all have weight 0 or proficiency 1,
\* every section is given exactly total_time / count; and whenever some section
\* has weight > 0 and proficiency < 1 the proportional formula is used instead.
C7_EvenSplitOnlyWhenDegenerate ==
    (pc = "returned" /\ sections # <<>>) =>
        IF Degenerate(sections)
        THEN /\ even_time # None
             /\ \A i \in 1..Len(sections) :
                    /\ i \in DOMAIN ret
                    /\ ret[i][2] = TrueDiv(total_time, Rat(Len(sections), 1)).val
        ELSE /\ even_time = None
             /\ \A i \in 1..Len(sections) :
                    /\ i \in DOMAIN ret
                    /\ Mul(ret[i][2], SpecTotal(sections))
                           = Mul(total_time, SpecScore(sections[i]))

C7_Witness ==
    /\ pc = "returned"
    /\ Len(sections) = 2
    /\ Degenerate(sections)
    /\ sections[1].weight # Zero
    /\ sections[2].proficiency # One
    /\ ret[1][2] = TrueDiv(total_time, Rat(2, 1)).val

\* C8: a call with the empty list and total_time > 0 returns the empty
\* sequence, raises nothing and divides nothing by the section count.
C8_EmptyInput ==
    (sections = <<>> /\ Lt(Zero, total_time) /\ pc \in {"line46", "returned", "raised"}) =>
        /\ pc # "raised"
        /\ exc = ""
        /\ ~divided
        /\ pc = "returned" => ret = <<>>
        /\ pc = "line46" => total_difficulty = Some(Zero)

C8_Witness ==
    /\ sections = <<>>
    /\ Lt(Zero, total_time)
    /\ pc = "returned"
    /\ ret = <<>>
    /\ even_time = Some(Zero)

\* C9: the result has as many entries as the input list and its i-th entry
\* carries the name of the i-th section, in both branches; sections sharing a
\* name each keep their own entry at their own position.
C9_OrderAndNames ==
    pc = "returned" =>
        /\ Len(ret) = Len(sections)
        /\ \A i \in 1..Len(sections) : ret[i][1] = sections[i].name

C9_Witness ==
    /\ pc = "returned"
    /\ Len(sections) = 2
    /\ sections[1].name = sections[2].name
    /\ Len(ret) = 2
    /\ ret[1] # ret[2]

\* C10: every allocated time lies in [0, total_time]; in the proportional
\* branch a section's time is 0 exactly when its weight is 0 or its
\* proficiency is 1.
C10_Range ==
    pc = "returned" =>
        \A i \in 1..Len(ret) :
            /\ Le(Zero, ret[i][2])
            /\ Le(ret[i][2], total_time)
            /\ even_time = None =>
                   (ret[i][2] = Zero <=>
                        (sections[i].weight = Zero \/ sections[i].proficiency = One))

C10_Witness ==
    /\ pc = "returned"
    /\ even_time = None
    /\ Len(sections) = 2
    /\ ret[1][2] = Zero
    /\ sections[1].weight # Zero
    /\ ret[2][2] = total_time

====
